---- MODULE Spec2Model ----
(***************************************************************************)
(* Two scripts of action_calibration/src/deprecated:                       *)
(*   test_with_inverse_dynamics_model.py   the evaluation loop with online *)
(*                                         action compensation  (Eval...)  *)
(*   train_inverse_dynamics_model.py       the supervised training loop of *)
(*                                         the inverse dynamics model      *)
(*                                         (Train...)                      *)
(* Each script is one process; EvalSpec and TrainSpec are their state      *)
(* machines.  The variables carry the scripts' own names; a variable that  *)
(* only the other script has stays at Unused.                              *)
(*                                                                         *)
(* Numbers: tensors hold exact rationals <<numerator, denominator>>        *)
(* (float32 rounding is not modelled).  An action is a vector with one     *)
(* component, a batched tensor is a function over 0..num_envs-1.           *)
(***************************************************************************)
EXTENDS Integers, Sequences, FiniteSets, TLC

VARIABLES
    pc,                        \* position of the script: "loop", "done", "ZeroDivisionError", ...
    args,                      \* the parsed Args, with the fields filled in at runtime
    global_step,
    next_obs, next_done,       \* last observation / done tensor returned by the simulator
    envs,                      \* RecordEpisodeStatisticsTorch: running returns and lengths
    \* evaluation script
    action_history, predicted_action_history,
    compensation_matrix, compensation_bias,
    test_results, num_episodes,
    sampled_action,            \* agent.get_action_and_value(next_obs)[0] of the current step
    action,                    \* the tensor passed to envs.step
    current_state,             \* next_obs.clone() taken before envs.step
    predicted_action,          \* idm(idm_input) of the current step
    info,                      \* infos["r"], infos["l"] of the last step
    step_log,                  \* history: one record per completed envs.step call
    \* training script
    iteration, step, epoch, start,   \* the loop counters of the four nested loops
    obs, actions, dones,             \* rollout storage, indexed [step][env]
    b_inds, minibatch,               \* torch.randperm result; the samples of the last minibatch
    checkpoints,                     \* the torch.save calls made so far
    mb_log,                          \* history: mb_inds of each gradient step of the epoch
    sim_episode_len                  \* simulator: steps after which each environment resets

evalOnly == <<action_history, predicted_action_history, compensation_matrix,
              compensation_bias, test_results, num_episodes, sampled_action, action,
              current_state, predicted_action, info, step_log>>
trainOnly == <<iteration, step, epoch, start, obs, actions, dones, b_inds, minibatch,
               checkpoints, mb_log, sim_episode_len>>
vars == <<pc, args, global_step, next_obs, next_done, envs, evalOnly, trainOnly>>

Unused == "unused"

(***************************************************************************)
(* Bounds of the model.                                                    *)
(***************************************************************************)
MaxSteps == 3              \* simulator steps explored in the evaluation loop
MaxLenHistory == 2         \* args.len_history ranges over 1..MaxLenHistory
EvalNumEnvs == {1, 2, 10}  \* args.num_envs of the evaluation script
MaxIterations == 3         \* args.num_iterations ranges over 1..MaxIterations
MaxNumSteps == 2           \* args.num_steps ranges over 2..MaxNumSteps
TrainNumEnvs == {1, 2}     \* args.num_envs of the training script
MinibatchCounts == {1, 2}  \* args.num_minibatches
CheckpointCounts == {1, 2} \* args.num_checkpoints
EpisodeLengths == {1, 2, 3}  \* episode lengths of the simulated task

Range(n) == 0 .. (n - 1)

\* f itself.  The comparison makes TLC tabulate a function written as
\* [x \in S |-> e] once, instead of evaluating e again at every application.
Tab(f) == IF f = f THEN f ELSE f

(***************************************************************************)
(* Exact rational arithmetic.                                              *)
(***************************************************************************)
Abs(n) == IF n < 0 THEN -n ELSE n

RECURSIVE GCD(_, _)
GCD(a, b) == IF b = 0 THEN a ELSE GCD(b, a % b)

Norm(n, d) ==
    LET s == IF d < 0 THEN -1 ELSE 1
        g == GCD(Abs(n), Abs(d))
    IN  <<(s * n) \div g, (s * d) \div g>>

Rat(n) == <<n, 1>>
RAdd(p, q) == Norm(p[1] * q[2] + q[1] * p[2], p[2] * q[2])
RSub(p, q) == Norm(p[1] * q[2] - q[1] * p[2], p[2] * q[2])
RMul(p, q) == Norm(p[1] * q[1], p[2] * q[2])
RDiv(p, q) == Norm(p[1] * q[2], p[2] * q[1])
RLess(p, q) == p[1] * q[2] < q[1] * p[2]

RECURSIVE RSum(_)
RSum(s) == IF s = <<>> THEN Rat(0) ELSE RAdd(Head(s), RSum(Tail(s)))

(***************************************************************************)
(* Vectors and matrices (sequences of rationals, sequences of rows).       *)
(***************************************************************************)
Transpose(M) == [c \in 1 .. Len(M[1]) |-> [r \in 1 .. Len(M) |-> M[r][c]]]

\* v @ M for a row vector v
VecMat(v, M) ==
    Tab([c \in 1 .. Len(M[1]) |-> RSum([r \in 1 .. Len(v) |-> RMul(v[r], M[r][c])])])

VecAdd(u, v) == Tab([k \in 1 .. Len(u) |-> RAdd(u[k], v[k])])
VecScale(w, v) == Tab([k \in 1 .. Len(v) |-> RMul(w, v[k])])

(***************************************************************************)
(* Evaluation script: test_with_inverse_dynamics_model.py                  *)
(***************************************************************************)
clip_actions == 1                    \* envs.clip_actions (the task's clipActions)
compensation_weight == <<1, 5>>      \* 0.2

\* torch.clamp of one scalar, and of a batched action tensor, to [-c, c]
ClampScalar(x, c) ==
    IF RLess(x, Rat(-c)) THEN Rat(-c) ELSE IF RLess(Rat(c), x) THEN Rat(c) ELSE x

\* mutant: the clamp is left out
TorchClampNone(t, c) == t

TorchClamp(t, c) ==
    Tab([i \in DOMAIN t |-> [k \in 1 .. Len(t[i]) |-> ClampScalar(t[i][k], c)]])

\* compensated_action = action[i] @ compensation_matrix[i].T + compensation_bias[i]
CompensatedAction(a, M, b) == VecAdd(VecMat(a, Transpose(M)), b)

\* mutant: the two blend weights are exchanged
BlendActionSwapped(a, M, b) ==
    VecAdd(VecScale(compensation_weight, a),
           VecScale(RSub(Rat(1), compensation_weight), CompensatedAction(a, M, b)))

\* action[i] = (1-compensation_weight)*action[i] + compensation_weight*compensated_action
BlendAction(a, M, b) ==
    VecAdd(VecScale(RSub(Rat(1), compensation_weight), a),
           VecScale(compensation_weight, CompensatedAction(a, M, b)))

\* the block guarded by len(compensation_matrix) > 0, with the second clamp
ApplyCompensation(act, cm, cb) ==
    IF Cardinality(DOMAIN cm) > 0
    THEN TorchClamp([i \in DOMAIN act |->
                        IF i \in DOMAIN cm THEN BlendAction(act[i], cm[i], cb[i])
                        ELSE act[i]],
                    clip_actions)
    ELSE act

\* mutant: a plain list, nothing is evicted
DequeAppendUnbounded(q, x, maxlen) == Append(q, x)

\* collections.deque(maxlen=...).append
DequeAppend(q, x, maxlen) ==
    IF maxlen = 0 THEN q
    ELSE IF Len(q) < maxlen THEN Append(q, x)
    ELSE Append(Tail(q), x)

\* The loaded inverse dynamics network, as one fixed function of its input
\* cat(state, next state): the state difference.
Idm(x) == <<Rat(x[2] - x[1])>>

\* mutant: the two observations are concatenated in the other order
IdmBatchSwapped(cs, no) == Tab([i \in DOMAIN cs |-> Idm(no[i] \o cs[i])])

\* idm(torch.cat((current_state, next_obs), dim=-1))
IdmBatch(cs, no) == Tab([i \in DOMAIN cs |-> Idm(cs[i] \o no[i])])

\* np.hstack([X_i, np.ones((X_i.shape[0], 1))])
Hstack(X) == Tab([k \in 1 .. Len(X) |-> X[k] \o <<Rat(1)>>])

\* np.linalg.lstsq(X_augmented, Y_i, rcond=None)[0] for one predictor column
\* and one target column: the least-squares solution, of minimum norm when
\* the predictor column is constant (rank 1).  Result: the rows of params.
Lstsq(Xa, Y) ==
    LET n   == Len(Xa)
        xs  == Tab([k \in 1 .. n |-> Xa[k][1]])
        ys  == Tab([k \in 1 .. n |-> Y[k][1]])
        Sx  == RSum(xs)
        Sy  == RSum(ys)
        Sxx == RSum([k \in 1 .. n |-> RMul(xs[k], xs[k])])
        Sxy == RSum([k \in 1 .. n |-> RMul(xs[k], ys[k])])
        det == RSub(RMul(Rat(n), Sxx), RMul(Sx, Sx))
        a   == RDiv(RSub(RMul(Rat(n), Sxy), RMul(Sx, Sy)), det)
        b   == RDiv(RSub(Sy, RMul(a, Sx)), Rat(n))
        ybar == RDiv(Sy, Rat(n))
        den  == RAdd(RMul(xs[1], xs[1]), Rat(1))
    IN  IF det[1] # 0
        THEN <<<<a>>, <<b>>>>
        ELSE <<<<RDiv(RMul(xs[1], ybar), den)>>, <<RDiv(ybar, den)>>>>

\* params of environment i: X_i = X[:,i,:], Y_i = Y[:,i,:]
FitParams(pah, ah, i) ==
    Lstsq(Hstack([k \in 1 .. Len(pah) |-> pah[k][i]]),
          [k \in 1 .. Len(ah) |-> ah[k][i]])

\* mutant: the fit sees only the newest window entry
RefitNewestOnly(pah, ah, n) ==
    LET params == Tab([i \in Range(n) |->
                         FitParams(<<pah[Len(pah)]>>, <<ah[Len(ah)]>>, i)])
    IN  [matrix |-> [i \in Range(n) |-> SubSeq(params[i], 1, 1)],
         bias   |-> [i \in Range(n) |-> params[i][2]]]

\* A, b = params[:-1], params[-1], for every i in range(num_envs)
Refit(pah, ah, n) ==
    LET params == Tab([i \in Range(n) |-> FitParams(pah, ah, i)])
    IN  [matrix |-> [i \in Range(n) |-> SubSeq(params[i], 1, 1)],
         bias   |-> [i \in Range(n) |-> params[i][2]]]

\* mutant: the running statistics are not cleared when an episode ends
WrapperStepNoReset(w, rewards, dn) ==
    LET ret == Tab([i \in DOMAIN rewards |-> w.episode_returns[i] + rewards[i]])
        len == Tab([i \in DOMAIN rewards |-> w.episode_lengths[i] + 1])
    IN  [envs |-> [episode_returns |-> ret, episode_lengths |-> len],
         info |-> [r |-> ret, l |-> len]]

\* RecordEpisodeStatisticsTorch.step, after the wrapped step returned
WrapperStep(w, rewards, dn) ==
    LET ret == Tab([i \in DOMAIN rewards |-> w.episode_returns[i] + rewards[i]])
        len == Tab([i \in DOMAIN rewards |-> w.episode_lengths[i] + 1])
    IN  [envs |-> [episode_returns |-> [i \in DOMAIN ret |-> IF dn[i] THEN 0 ELSE ret[i]],
                   episode_lengths |-> [i \in DOMAIN len |-> IF dn[i] THEN 0 ELSE len[i]]],
         info |-> [r |-> ret, l |-> len]]

\* RecordEpisodeStatisticsTorch.reset
WrapperReset(n) ==
    [episode_returns |-> [i \in Range(n) |-> 0],
     episode_lengths |-> [i \in Range(n) |-> 0]]

\* A result table is an insertion-ordered dict: a sequence of <<key, value>>.
Keys(tbl) == {tbl[k][1] : k \in 1 .. Len(tbl)}
Lookup(tbl, key) == (CHOOSE k \in 1 .. Len(tbl) : tbl[k][1] = key)
Value(tbl, key) == tbl[Lookup(tbl, key)][2]
\* tbl[key] = value
DictSet(tbl, key, value) ==
    IF key \in Keys(tbl)
    THEN [tbl EXCEPT ![Lookup(tbl, key)] = <<key, value>>]
    ELSE Append(tbl, <<key, value>>)

\* mutant: the guard is lost, every done signal is recorded
AlreadyRecordedNever(tr, idx) == FALSE

\* the guard "idx in test_results['episodic_return']" that skips a recorded index
AlreadyRecorded(tr, idx) == idx \in Keys(tr.episodic_return)

\* for idx, d in enumerate(next_done): ... from index idx on.  Result: the
\* tables, num_episodes, and whether line 332 raised (total_episodes // 10 = 0).
RECURSIVE RecordResults(_, _, _, _, _, _)
RecordResults(idx, tr, ne, dn, inf, a) ==
    IF idx >= a.num_envs THEN [test_results |-> tr, num_episodes |-> ne, raised |-> FALSE]
    ELSE IF ~dn[idx] THEN RecordResults(idx + 1, tr, ne, dn, inf, a)
    ELSE IF AlreadyRecorded(tr, idx) THEN RecordResults(idx + 1, tr, ne, dn, inf, a)
    ELSE LET tr2 == [episodic_return |-> DictSet(tr.episodic_return, idx, inf.r[idx]),
                     episodic_length |-> DictSet(tr.episodic_length, idx, inf.l[idx])]
             ne2 == Len(tr2.episodic_return)
         IN  IF a.total_episodes \div 10 = 0
             THEN [test_results |-> tr2, num_episodes |-> ne2, raised |-> TRUE]
             ELSE IF ne2 = a.total_episodes
             THEN [test_results |-> tr2, num_episodes |-> ne2, raised |-> FALSE]
             ELSE RecordResults(idx + 1, tr2, ne2, dn, inf, a)

(***************************************************************************)
(* What the policy and the simulator may return in one step.  Environment  *)
(* 0 and the others get separate values.                                   *)
(***************************************************************************)
PerEnv(n, a, b) == [i \in Range(n) |-> IF i = 0 THEN a ELSE b]

SamplePairs == {<<1, 1>>, <<-2, 1>>}
ObsPairs == {<<1, 0>>, <<0, 1>>}

PolicySamples(n) == {PerEnv(n, <<Rat(p[1])>>, <<Rat(p[2])>>) : p \in SamplePairs}
SimObs(n) == {PerEnv(n, <<p[1]>>, <<p[2]>>) : p \in ObsPairs}
SimDones(n) ==
    {[i \in Range(n) |-> i \in D] : D \in {{}, {0}, Range(n)}}
\* the task's reward, computed from the state reached
SimReward(o) == Tab([i \in DOMAIN o |-> o[i][1]])

EvalInit ==
    /\ pc = "loop"
    /\ \E n \in EvalNumEnvs, h \in 1 .. MaxLenHistory :
          /\ args = [num_envs |-> n, len_history |-> h, total_episodes |-> n]
          /\ next_obs = [i \in Range(n) |-> <<0>>]
          /\ next_done = [i \in Range(n) |-> FALSE]
          /\ envs = WrapperReset(n)
    /\ global_step = 0
    /\ action_history = <<>>
    /\ predicted_action_history = <<>>
    /\ compensation_matrix = <<>>
    /\ compensation_bias = <<>>
    /\ test_results = [episodic_return |-> <<>>, episodic_length |-> <<>>]
    /\ num_episodes = 0
    /\ sampled_action = Unused
    /\ action = Unused
    /\ current_state = Unused
    /\ predicted_action = Unused
    /\ info = Unused
    /\ step_log = <<>>
    /\ iteration = Unused /\ step = Unused /\ epoch = Unused /\ start = Unused
    /\ obs = Unused /\ actions = Unused /\ dones = Unused
    /\ b_inds = Unused /\ minibatch = Unused /\ checkpoints = Unused
    /\ sim_episode_len = Unused /\ mb_log = Unused

\* One pass through the body of "while num_episodes < args.total_episodes".
EvalStep ==
    /\ pc = "loop"
    /\ num_episodes < args.total_episodes
    /\ Len(step_log) < MaxSteps
    /\ \E smp \in PolicySamples(args.num_envs), o \in SimObs(args.num_envs),
          dn \in SimDones(args.num_envs) :
          /\ global_step' = global_step + args.num_envs
          /\ sampled_action' = smp
          /\ action' = ApplyCompensation(TorchClamp(smp, clip_actions),
                                         compensation_matrix, compensation_bias)
          /\ current_state' = next_obs
          /\ action_history' = DequeAppend(action_history, action', args.len_history)
          /\ next_obs' = o
          /\ next_done' = dn
          /\ LET w == WrapperStep(envs, SimReward(o), dn)
             IN  envs' = w.envs /\ info' = w.info
          /\ predicted_action' = IdmBatch(current_state', next_obs')
          /\ predicted_action_history' =
                DequeAppend(predicted_action_history, predicted_action', args.len_history)
          /\ LET fit == Refit(predicted_action_history', action_history', args.num_envs)
             IN  compensation_matrix' = fit.matrix /\ compensation_bias' = fit.bias
          /\ LET rec == RecordResults(0, test_results, num_episodes, next_done', info', args)
             IN  /\ test_results' = rec.test_results
                 /\ num_episodes' = rec.num_episodes
                 /\ pc' = IF rec.raised THEN "ZeroDivisionError" ELSE "loop"
          /\ step_log' = Append(step_log,
                                [sampled |-> smp, action |-> action', state |-> next_obs,
                                 next_state |-> o, predicted |-> predicted_action',
                                 done |-> dn])
    /\ UNCHANGED <<args, trainOnly>>

\* The loop condition fails; the results are written and turned into lists.
EvalFinish ==
    /\ pc = "loop"
    /\ ~(num_episodes < args.total_episodes)
    /\ pc' = "done"
    /\ test_results' =
          [key \in DOMAIN test_results |->
              [k \in 1 .. Len(test_results[key]) |-> test_results[key][k][2]]]
    /\ UNCHANGED <<args, global_step, next_obs, next_done, envs, action_history,
                   predicted_action_history, compensation_matrix, compensation_bias,
                   num_episodes, sampled_action, action, current_state,
                   predicted_action, info, step_log, trainOnly>>

EvalNext == EvalStep \/ EvalFinish

EvalSpec == EvalInit /\ [][EvalNext]_vars

(***************************************************************************)
(* Training script: train_inverse_dynamics_model.py                        *)
(***************************************************************************)
update_epochs == 1                   \* Args.update_epochs

\* The simulator's observation of environment e after g steps is the vector
\* <<e, g>>: every observation tells its environment and its time.
SimObsAt(n, g) == [e \in Range(n) |-> <<e, g>>]

\* The simulator ends the episode of e when it has run sim_episode_len[e]
\* steps; w is the wrapper state before the step.
SimDoneAfter(w, len) == [e \in DOMAIN len |-> w.episode_lengths[e] + 1 >= len[e]]

\* The fixed policy, as a function of the observation alone; the value is
\* different for every (environment, time) and leaves [-1, 1] for most.
AgentAction(o) == <<Rat(((o[1] + o[2]) * (o[1] + o[2] + 1)) \div 2 + o[2] - 1)>>

AgentActionBatch(ob) == Tab([e \in DOMAIN ob |-> AgentAction(ob[e])])

\* the runtime fields of Args
TrainArgs(n, t, m, c, total) ==
    [num_envs |-> n, num_steps |-> t, num_minibatches |-> m, num_checkpoints |-> c,
     update_epochs |-> update_epochs, total_timesteps |-> total,
     batch_size |-> n * t,
     minibatch_size |-> (n * t) \div m,
     num_iterations |-> total \div (n * t)]

\* buf.reshape((-1,) + shape) of a [num_steps][num_envs] buffer: row-major
Reshape(buf, a) ==
    Tab([k \in Range(a.num_steps * a.num_envs) |-> buf[k \div a.num_envs][k % a.num_envs]])

\* The permutations torch.randperm(n) is drawn from here: the rotations of
\* 0..n-1 and of its reverse (all permutations up to n = 3).
RandpermChoices(n) ==
    {[k \in 1 .. n |-> ((k - 1) + r) % n] : r \in Range(n)}
    \cup {[k \in 1 .. n |-> (n - 1) - (((k - 1) + r) % n)] : r \in Range(n)}
    \cup (IF n = 0 THEN {<<>>} ELSE {})

\* mutant: torch.randperm(args.batch_size)
SampleIndicesWhole(a) == RandpermChoices(a.batch_size)

\* b_inds = torch.randperm(args.batch_size-1)
SampleIndices(a) == RandpermChoices(a.batch_size - 1)

\* b_inds[start:end]
Slice(s, from, to) ==
    SubSeq(s, from + 1, IF to < Len(s) THEN to ELSE Len(s))

\* One sample of a minibatch, for the flat index k.
MinibatchSample(k, a, bobs, bact, bdones) ==
    [ind |-> k,
     prev_obs |-> bobs[k],
     next_obs |-> bobs[k + 1],
     label |-> bact[k],
     mask |-> ~bdones[k + 1],
     masked_label |-> IF ~bdones[k + 1] THEN bact[k] ELSE [c \in DOMAIN bact[k] |-> Rat(0)]]

\* the condition of the checkpoint save; raises when the interval is 0
CheckpointInterval(a) == a.num_iterations \div a.num_checkpoints

SaveNow(it, a) == it % CheckpointInterval(a) = 0 \/ it = a.num_iterations

TrainInit ==
    /\ pc = "rollout"
    /\ \E n \in TrainNumEnvs, t \in 2 .. MaxNumSteps, m \in MinibatchCounts,
          c \in CheckpointCounts, its \in 1 .. MaxIterations,
          l0 \in EpisodeLengths, l1 \in EpisodeLengths :
          /\ args = TrainArgs(n, t, m, c, its * n * t)
          /\ obs = [st \in Range(t) |-> [e \in Range(n) |-> <<0, 0>>]]
          /\ actions = [st \in Range(t) |-> [e \in Range(n) |-> <<Rat(0)>>]]
          /\ dones = [st \in Range(t) |-> [e \in Range(n) |-> FALSE]]
          /\ next_obs = SimObsAt(n, 0)
          /\ next_done = [e \in Range(n) |-> FALSE]
          /\ envs = WrapperReset(n)
          /\ sim_episode_len = PerEnv(n, l0, l1)
    /\ global_step = 0
    /\ iteration = 1
    /\ step = 0
    /\ epoch = 0
    /\ start = 0
    /\ b_inds = <<>>
    /\ minibatch = <<>>
    /\ checkpoints = <<>>
    /\ mb_log = <<>>
    /\ action_history = Unused /\ predicted_action_history = Unused
    /\ compensation_matrix = Unused /\ compensation_bias = Unused
    /\ test_results = Unused /\ num_episodes = Unused /\ sampled_action = Unused
    /\ action = Unused /\ current_state = Unused /\ predicted_action = Unused
    /\ info = Unused /\ step_log = Unused

\* One pass through the body of "for step in range(0, args.num_steps)".
TrainRolloutStep ==
    /\ pc = "rollout"
    /\ iteration <= args.num_iterations
    /\ step < args.num_steps
    /\ global_step' = global_step + args.num_envs
    /\ obs' = [obs EXCEPT ![step] = next_obs]
    /\ dones' = [dones EXCEPT ![step] = next_done]
    /\ actions' = [actions EXCEPT ![step] = AgentActionBatch(next_obs)]
    /\ next_obs' = SimObsAt(args.num_envs, (global_step \div args.num_envs) + 1)
    /\ next_done' = SimDoneAfter(envs, sim_episode_len)
    /\ envs' = WrapperStep(envs, SimReward(next_obs'), next_done').envs
    /\ step' = step + 1
    /\ pc' = IF step' < args.num_steps THEN "rollout" ELSE "update"
    /\ UNCHANGED <<args, evalOnly, iteration, epoch, start, b_inds, minibatch,
                   checkpoints, mb_log, sim_episode_len>>

\* "for epoch in range(args.update_epochs)": the buffers are flattened, the
\* indices drawn; range(0, batch_size, minibatch_size) raises for a step of 0.
TrainBeginEpoch ==
    /\ pc = "update"
    /\ epoch < args.update_epochs
    /\ \E perm \in SampleIndices(args) : b_inds' = perm
    /\ start' = 0
    /\ mb_log' = <<>>
    /\ pc' = IF args.minibatch_size = 0 THEN "ValueError" ELSE "minibatch"
    /\ UNCHANGED <<args, global_step, next_obs, next_done, envs, evalOnly, iteration,
                   step, epoch, obs, actions, dones, minibatch, checkpoints,
                   sim_episode_len>>

\* One pass through the body of "for start in range(0, batch_size, minibatch_size)".
TrainMinibatch ==
    /\ pc = "minibatch"
    /\ start < args.batch_size
    /\ LET mb_inds == Slice(b_inds, start, start + args.minibatch_size)
           b_obs == Reshape(obs, args)
           b_actions == TorchClamp(Reshape(actions, args), clip_actions)
           b_dones == Reshape(dones, args)
           inside == \A j \in 1 .. Len(mb_inds) : mb_inds[j] + 1 < args.batch_size
       IN  IF inside
           THEN /\ minibatch' = [j \in 1 .. Len(mb_inds) |->
                                   MinibatchSample(mb_inds[j], args, b_obs, b_actions, b_dones)]
                /\ mb_log' = Append(mb_log, mb_inds)
                /\ start' = start + args.minibatch_size
                /\ epoch' = IF start' < args.batch_size THEN epoch ELSE epoch + 1
                /\ pc' = IF start' < args.batch_size THEN "minibatch"
                         ELSE IF epoch' < args.update_epochs THEN "update"
                         ELSE "log"
           ELSE /\ pc' = "IndexError"
                /\ UNCHANGED <<minibatch, mb_log, start, epoch>>
    /\ UNCHANGED <<args, global_step, next_obs, next_done, envs, evalOnly, iteration,
                   step, obs, actions, dones, b_inds, checkpoints, sim_episode_len>>

\* The end of an iteration: the scalars are logged and the checkpoint
\* condition is evaluated; then the next iteration starts or the loop ends.
TrainEndIteration ==
    /\ pc = "log"
    /\ IF CheckpointInterval(args) = 0
       THEN /\ pc' = "ZeroDivisionError"
            /\ UNCHANGED <<checkpoints, iteration, step, epoch>>
       ELSE /\ checkpoints' = IF SaveNow(iteration, args)
                              THEN Append(checkpoints,
                                          [iteration |-> iteration, global_step |-> global_step])
                              ELSE checkpoints
            /\ iteration' = iteration + 1
            /\ step' = 0
            /\ epoch' = 0
            /\ pc' = IF iteration' <= args.num_iterations THEN "rollout" ELSE "done"
    /\ UNCHANGED <<args, global_step, next_obs, next_done, envs, evalOnly, start, obs,
                   actions, dones, b_inds, minibatch, mb_log, sim_episode_len>>

TrainNext == TrainRolloutStep \/ TrainBeginEpoch \/ TrainMinibatch \/ TrainEndIteration

TrainSpec == TrainInit /\ [][TrainNext]_vars

(***************************************************************************)
(* Properties of the evaluation loop (EvalSpec).                           *)
(***************************************************************************)
InEvalLoop == pc \in {"loop", "ZeroDivisionError"}
StepsTaken == Len(step_log)
Recorded == Keys(test_results.episodic_return)

\* C1: while the loop runs, the result tables hold at most one entry per
\* environment index, both tables have the same keys, and an entry once
\* recorded is never changed or replaced by a later step.
C1_OneResultPerEnv ==
    /\ [](InEvalLoop =>
            /\ Cardinality(Keys(test_results.episodic_return))
                  = Len(test_results.episodic_return)
            /\ Cardinality(Keys(test_results.episodic_length))
                  = Len(test_results.episodic_length)
            /\ Keys(test_results.episodic_return) = Keys(test_results.episodic_length)
            /\ Recorded \subseteq Range(args.num_envs))
    /\ [][(InEvalLoop /\ pc' # "done") =>
            \A i \in Recorded :
               /\ i \in Keys(test_results'.episodic_return)
               /\ i \in Keys(test_results'.episodic_length)
               /\ Value(test_results'.episodic_return, i)
                     = Value(test_results.episodic_return, i)
               /\ Value(test_results'.episodic_length, i)
                     = Value(test_results.episodic_length, i)]_vars

\* C1 witness: a recorded environment reported done again, with another
\* episode length than the recorded one, and the loop goes on.
C1_Witness ==
    /\ pc = "loop"
    /\ num_episodes < args.total_episodes
    /\ \E i \in Recorded :
          /\ next_done[i]
          /\ info.l[i] # Value(test_results.episodic_length, i)

\* C2: the loop never stops, by exit or by abort, while some environment has
\* no recorded result, and once every environment has its result no further
\* simulator step is taken.
C2_StopsExactlyWhenComplete ==
    /\ [](pc # "loop" => (pc = "done" \/ Recorded = Range(args.num_envs)))
    /\ [](pc = "done" => num_episodes = args.num_envs)
    /\ [][(InEvalLoop /\ Recorded = Range(args.num_envs)) =>
             global_step' = global_step]_vars

\* C7 as stated: on the step taken with an empty history window the action
\* passed to the simulator is the raw policy sample.
C7_ColdStartRawSample ==
    [][(action_history = <<>> /\ global_step' # global_step) =>
          \A i \in Range(args.num_envs) : action'[i] = sampled_action'[i]]_vars

\* C7 amended: on the step taken with an empty history window the action
\* passed to the simulator is the policy sample with every component limited
\* to [-clip_actions, clip_actions]; no compensation is applied.
C7_ColdStartClippedSample ==
    [][(action_history = <<>> /\ global_step' # global_step) =>
          \A i \in Range(args.num_envs) : \A k \in 1 .. Len(sampled_action'[i]) :
             LET smp == sampled_action'[i][k]
                 act == action'[i][k]
             IN  /\ RLess(smp, Rat(-clip_actions)) => act = Rat(-clip_actions)
                 /\ RLess(Rat(clip_actions), smp) => act = Rat(clip_actions)
                 /\ (~RLess(smp, Rat(-clip_actions)) /\ ~RLess(Rat(clip_actions), smp))
                       => act = smp]_vars

\* C7 witness: the first step was taken and the policy sample of some
\* environment lay outside the actuator range.
C7_Witness ==
    /\ StepsTaken = 1
    /\ \E i \in Range(args.num_envs) : RLess(sampled_action[i][1], Rat(-clip_actions))

\* C8: after t steps both windows hold the entries of the most recent
\* min(t, len_history) steps, oldest first.
LastSteps(field) ==
    LET t == StepsTaken
        m == IF t < args.len_history THEN t ELSE args.len_history
    IN  [k \in 1 .. m |-> step_log[t - m + k][field]]

C8_BoundedFifo ==
    /\ action_history = LastSteps("action")
    /\ predicted_action_history = LastSteps("predicted")

\* C8 witness: more steps than the window holds, with a window of two
\* different entries.
C8_Witness ==
    /\ StepsTaken > args.len_history
    /\ args.len_history > 1
    /\ action_history[1] # action_history[2]
    /\ predicted_action_history[1] # predicted_action_history[2]

\* C9: no transform before the first step; after every step each environment
\* has a transform, and it solves the least-squares problem of the full
\* current windows (the residuals of a*x + b - y are orthogonal to the
\* predictor column and to the column of ones).
Residuals(i) ==
    [k \in 1 .. Len(action_history) |->
        RSub(RAdd(RMul(compensation_matrix[i][1][1], predicted_action_history[k][i][1]),
                  compensation_bias[i][1]),
             action_history[k][i][1])]

C9_TransformIsCurrentFit ==
    /\ StepsTaken = 0 => (DOMAIN compensation_matrix = {} /\ DOMAIN compensation_bias = {})
    /\ StepsTaken > 0 =>
          /\ DOMAIN compensation_matrix = Range(args.num_envs)
          /\ DOMAIN compensation_bias = Range(args.num_envs)
          /\ \A i \in Range(args.num_envs) :
                LET r == Tab(Residuals(i))
                IN  /\ RSum(r) = Rat(0)
                    /\ RSum([k \in 1 .. Len(r) |->
                                RMul(r[k], predicted_action_history[k][i][1])]) = Rat(0)

\* C9 witness: a window of two entries with different predicted actions and
\* different executed actions, fitted with a non-zero slope.
C9_Witness ==
    /\ Len(action_history) = 2
    /\ \E i \in Range(args.num_envs) :
          /\ predicted_action_history[1][i] # predicted_action_history[2][i]
          /\ action_history[1][i] # action_history[2][i]
          /\ compensation_matrix[i][1][1] # Rat(0)

(***************************************************************************)
(* Properties of the training loop (TrainSpec).                            *)
(***************************************************************************)
\* the minibatch was built from the buffers as they are now
MinibatchCurrent == pc = "log" \/ (pc = "minibatch" /\ start > 0)
Samples == {minibatch[j] : j \in 1 .. Len(minibatch)}
\* the rollout entry (timestep, environment) behind a flat index
StepOf(k) == k \div args.num_envs
EnvOf(k) == k % args.num_envs

\* C3: every minibatch sample pairs the observation of some environment e at
\* a timestep t with the observation of the same e at t+1, labelled with the
\* (clipped) action e took at t.
C3_NextObsOfSameEnv ==
    MinibatchCurrent =>
       \A smp \in Samples :
          \E t \in Range(args.num_steps - 1), e \in Range(args.num_envs) :
             /\ smp.prev_obs = obs[t][e]
             /\ smp.next_obs = obs[t + 1][e]
             /\ smp.label = TorchClamp(actions[t], clip_actions)[e]

\* C4: a sample's mask is 0, and its label zeroed, exactly when the step its
\* environment took from its state ended an episode (the next state is the
\* first after a reset); otherwise the mask is 1 and the label is unchanged.
EpisodeEndedAfter(t, e) ==
    IF t + 1 < args.num_steps THEN dones[t + 1][e] ELSE next_done[e]

C4_MaskIffEpisodeBoundary ==
    MinibatchCurrent =>
       \A smp \in Samples :
          LET crosses == EpisodeEndedAfter(StepOf(smp.ind), EnvOf(smp.ind))
          IN  /\ smp.mask = ~crosses
              /\ crosses => smp.masked_label = [c \in DOMAIN smp.label |-> Rat(0)]
              /\ ~crosses => smp.masked_label = smp.label

\* C5: every index drawn for an epoch lies in 0..batch_size-2, so the
\* look-ahead index k+1 of every sample is inside the flattened buffer and
\* no lookup fails.
C5_NeverFinalIndex ==
    /\ pc # "IndexError"
    /\ pc \in {"minibatch", "log"} =>
          \A j \in 1 .. Len(b_inds) : 0 <= b_inds[j] /\ b_inds[j] <= args.batch_size - 2
    /\ MinibatchCurrent =>
          \A smp \in Samples : 0 <= smp.ind /\ smp.ind + 1 <= args.batch_size - 1

\* C5 witness: a minibatch of a buffer of four or more entries used the
\* largest index drawn, batch_size-2, whose look-ahead is the final index.
C5_Witness ==
    /\ pc = "log"
    /\ args.batch_size >= 4
    /\ \E smp \in Samples : smp.ind = args.batch_size - 2

\* C6: no minibatch sample is an entry of the final timestep num_steps-1.
C6_NoFinalTimestep ==
    MinibatchCurrent =>
       \A smp \in Samples :
          /\ StepOf(smp.ind) # args.num_steps - 1
          /\ \A e \in Range(args.num_envs) : smp.prev_obs # obs[args.num_steps - 1][e]

\* C10: the training loop stops only after all num_iterations iterations,
\* with a checkpoint written at every multiple of
\* num_iterations // num_checkpoints and at the final iteration.
Saved == {checkpoints[j].iteration : j \in 1 .. Len(checkpoints)}

C10_AllIterationsAndCheckpoints ==
    pc \notin {"rollout", "update", "minibatch", "log"} =>
       /\ pc = "done"
       /\ iteration = args.num_iterations + 1
       /\ args.num_iterations \in Saved
       /\ \A i \in 1 .. args.num_iterations :
             (CheckpointInterval(args) > 0 /\ i % CheckpointInterval(args) = 0)
                => i \in Saved

\* C11: a training run that completes with num_iterations >= num_checkpoints
\* has written exactly num_checkpoints checkpoints.
C11_CheckpointCount ==
    (pc = "done" /\ args.num_iterations >= args.num_checkpoints) =>
       Len(checkpoints) = args.num_checkpoints

(***************************************************************************)
(* The fit and its use on windows of two-component actions (FitSpec): the  *)
(* refit of lines 303-315 on a given window, then the correction of line   *)
(* 287 on a proposed action.                                               *)
(***************************************************************************)
MatMul(A, B) == Tab([r \in 1 .. Len(A) |-> VecMat(A[r], B)])

\* M without row r and column c
Minor(M, r, c) ==
    Tab([i \in 1 .. Len(M) - 1 |->
           [j \in 1 .. Len(M) - 1 |->
               M[IF i < r THEN i ELSE i + 1][IF j < c THEN j ELSE j + 1]]])

RECURSIVE Det(_)
Det(M) ==
    IF Len(M) = 1 THEN M[1][1]
    ELSE RSum(Tab([c \in 1 .. Len(M) |->
                      RMul(RMul(Rat(IF c % 2 = 1 THEN 1 ELSE -1), M[1][c]),
                           Det(Minor(M, 1, c)))]))

Inverse(M) ==
    LET d == Det(M)
    IN  Tab([i \in 1 .. Len(M) |->
               [j \in 1 .. Len(M) |->
                   RDiv(RMul(Rat(IF (i + j) % 2 = 0 THEN 1 ELSE -1), Det(Minor(M, j, i))),
                        d)]])

\* X_augmented has full column rank: the least-squares solution is unique
FullRank(Xa) == Det(MatMul(Tab(Transpose(Xa)), Xa)) # Rat(0)

\* np.linalg.lstsq(X_augmented, Y_i, rcond=None)[0] where the solution is
\* unique, for any number of columns: the solution of the normal equations.
LstsqUnique(Xa, Y) ==
    LET Xt  == Tab(Transpose(Xa))
        XtX == MatMul(Xt, Xa)
        XtY == MatMul(Xt, Y)
    IN  MatMul(Inverse(XtX), XtY)

\* lines 305-315 for windows on which the fit is unique (params is bound to
\* its value before it is split into A and b)
RefitUnique(pah, ah, n) ==
    CHOOSE fit \in
       {[matrix |-> [i \in Range(n) |-> SubSeq(params[i], 1, Len(params[i]) - 1)],
         bias   |-> [i \in Range(n) |-> params[i][Len(params[i])]]]
        : params \in {[i \in Range(n) |->
                         LstsqUnique(Hstack([k \in 1 .. Len(pah) |-> pah[k][i]]),
                                     [k \in 1 .. Len(ah) |-> ah[k][i]])]}} : TRUE

RatVec(v) == [k \in 1 .. Len(v) |-> Rat(v[k])]
RatMat(M) == [r \in 1 .. Len(M) |-> RatVec(M[r])]

\* the relations executed = predicted @ M + c the windows are drawn from
FitMatrices == {RatMat(<<<<a, b>>, <<c, d>>>>) : a \in {1, 2}, b \in {0, 1}, c \in {0, 1}, d \in {1, 2}}
FitBiases == {RatVec(<<0, 0>>), RatVec(<<1, -1>>)}
\* windows of predicted actions, each of full rank with the column of ones
FitDesigns == {<<<<0, 0>>, <<1, 0>>, <<0, 1>>>>,
               <<<<1, 1>>, <<1, 0>>, <<0, 1>>>>,
               <<<<1, 0>>, <<0, 1>>, <<2, 2>>>>}
FitProposals == {RatVec(<<1, 0>>), RatVec(<<0, 1>>), RatVec(<<1, -1>>)}

Affine(p, M, c) == VecAdd(VecMat(p, M), c)

FitInit ==
    /\ pc = "fit"
    /\ args = [num_envs |-> 1, len_history |-> 3, total_episodes |-> 1]
    /\ \E X \in FitDesigns, M \in FitMatrices, c \in FitBiases :
          /\ predicted_action_history = [k \in 1 .. Len(X) |-> [i \in Range(1) |-> RatVec(X[k])]]
          /\ action_history = [k \in 1 .. Len(X) |-> [i \in Range(1) |-> Affine(RatVec(X[k]), M, c)]]
    /\ compensation_matrix = <<>>
    /\ compensation_bias = <<>>
    /\ sampled_action = Unused
    /\ action = Unused
    /\ global_step = Unused /\ next_obs = Unused /\ next_done = Unused /\ envs = Unused
    /\ test_results = Unused /\ num_episodes = Unused /\ current_state = Unused
    /\ predicted_action = Unused /\ info = Unused /\ step_log = Unused
    /\ iteration = Unused /\ step = Unused /\ epoch = Unused /\ start = Unused
    /\ obs = Unused /\ actions = Unused /\ dones = Unused
    /\ b_inds = Unused /\ minibatch = Unused /\ checkpoints = Unused
    /\ sim_episode_len = Unused /\ mb_log = Unused

\* lines 303-315: the transform of every environment is fitted to the windows
FitRefit ==
    /\ pc = "fit"
    /\ \A i \in Range(args.num_envs) :
          FullRank(Hstack([k \in 1 .. Len(predicted_action_history) |->
                              predicted_action_history[k][i]]))
    /\ \E fit \in {RefitUnique(predicted_action_history, action_history, args.num_envs)} :
          compensation_matrix' = fit.matrix /\ compensation_bias' = fit.bias
    /\ pc' = "apply"
    /\ UNCHANGED <<args, global_step, next_obs, next_done, envs, action_history,
                   predicted_action_history, test_results, num_episodes, sampled_action,
                   action, current_state, predicted_action, info, step_log, trainOnly>>

\* line 287: compensated_action of a proposed action, before the blend
FitApply ==
    /\ pc = "apply"
    /\ \E p \in FitProposals :
          /\ sampled_action' = [i \in Range(args.num_envs) |-> p]
          /\ action' = [i \in Range(args.num_envs) |->
                          CompensatedAction(p, compensation_matrix[i], compensation_bias[i])]
    /\ pc' = "applied"
    /\ UNCHANGED <<args, global_step, next_obs, next_done, envs, action_history,
                   predicted_action_history, compensation_matrix, compensation_bias,
                   test_results, num_episodes, current_state, predicted_action, info,
                   step_log, trainOnly>>

FitNext == FitRefit \/ FitApply

FitSpec == FitInit /\ [][FitNext]_vars

\* every window row of environment i satisfies executed = predicted @ M + c
WindowFollows(i, M, c) ==
    \A k \in 1 .. Len(action_history) :
       action_history[k][i] = Affine(predicted_action_history[k][i], M, c)

\* C12: when every window row of an environment satisfies
\* executed = predicted @ M + c and the fit is unique, the corrected action
\* computed for a proposed action p is p @ M + c, also for non-symmetric M.
C12_CorrectionIsFittedMap ==
    pc = "applied" =>
       \A i \in Range(args.num_envs) : \A M \in FitMatrices, c \in FitBiases :
          WindowFollows(i, M, c) => action[i] = Affine(sampled_action[i], M, c)

(***************************************************************************)
(* Properties of the compensation step                                     *)
(***************************************************************************)
\* clip(0.8 * p + 0.2 * (p @ A^T + b)), component by component
BlendOf(p, A, b) ==
    [k \in 1 .. Len(p) |->
        ClampScalar(
            RAdd(RMul(<<4, 5>>, p[k]),
                 RMul(<<1, 5>>,
                      RAdd(RSum([r \in 1 .. Len(p) |-> RMul(p[r], A[k][r])]), b[k]))),
            clip_actions)]

\* the policy's sample with every component limited to [-clip_actions, clip_actions]
Clipped(p) == [k \in 1 .. Len(p) |-> ClampScalar(p[k], clip_actions)]

\* C13: on every step at which environment i has a transform (A_i, b_i) the
\* action sent to the simulator for i is clip(0.8 * p + 0.2 * (p @ A_i^T + b_i))
\* with p the policy's proposed action for i.
C13_BlendOfRawSample ==
    [][global_step' # global_step =>
          \A i \in Range(args.num_envs) :
             i \in DOMAIN compensation_matrix =>
                action'[i] = BlendOf(sampled_action'[i], compensation_matrix[i],
                                     compensation_bias[i])]_vars

\* C13 amended: on every step at which environment i has a transform
\* (A_i, b_i) the action sent to the simulator for i is
\* clip(0.8 * p + 0.2 * (p @ A_i^T + b_i)) with p the policy's sample for i
\* already limited to [-clip_actions, clip_actions]; only row i of the
\* sample and the transform of i enter.
C13_BlendOfClippedSample ==
    [][global_step' # global_step =>
          \A i \in Range(args.num_envs) :
             i \in DOMAIN compensation_matrix =>
                action'[i] = BlendOf(Clipped(sampled_action'[i]), compensation_matrix[i],
                                     compensation_bias[i])]_vars

\* a step taken with a transform in place, on a sample outside the limits,
\* whose compensation changes the action
C13_Witness ==
    /\ StepsTaken >= 2
    /\ \E i \in Range(args.num_envs) :
          /\ RLess(sampled_action[i][1], Rat(-clip_actions))
          /\ action[i] # Clipped(sampled_action[i])

\* the step whose entries are at position k of the windows
WindowStep(k) == StepsTaken - Len(action_history) + k

\* C14: the windows have the same length, and their k-th entries belong to
\* one step: the executed entry is the action passed to the simulator in
\* that step, the predicted entry is the inverse dynamics model's output on
\* the observation before that step followed by the observation after it.
C14_WindowsAligned ==
    /\ Len(predicted_action_history) = Len(action_history)
    /\ Len(action_history) <= StepsTaken
    /\ \A k \in 1 .. Len(action_history) : \A i \in Range(args.num_envs) :
          LET s == step_log[WindowStep(k)]
          IN  /\ action_history[k][i] = s.action[i]
              /\ predicted_action_history[k][i] = Idm(s.state[i] \o s.next_state[i])
              /\ WindowStep(k) > 1 => s.state[i] = step_log[WindowStep(k) - 1].next_state[i]

\* two steps in the window whose observations changed in different ways
C14_Witness ==
    /\ Len(action_history) = 2
    /\ StepsTaken > 2
    /\ \E i \in Range(args.num_envs) :
          /\ step_log[WindowStep(1)].state[i] # step_log[WindowStep(1)].next_state[i]
          /\ predicted_action_history[1][i] # predicted_action_history[2][i]

(***************************************************************************)
(* Properties of the episode statistics                                    *)
(***************************************************************************)
\* the steps at which environment i reported done
DoneSteps(i) == {j \in 1 .. StepsTaken : step_log[j].done[i]}
Least(S) == CHOOSE j \in S : \A j2 \in S : j <= j2
Greatest(S) == CHOOSE j \in S : \A j2 \in S : j2 <= j

\* the sum of environment i's rewards over the steps from .. to
RECURSIVE RewardsOver(_, _, _)
RewardsOver(i, from, to) ==
    IF from > to THEN 0
    ELSE SimReward(step_log[to].next_state)[i] + RewardsOver(i, from, to - 1)

\* C15: a recorded length is the number of steps up to and including the
\* first step at which the environment reported done, a recorded return is
\* the sum of its rewards over those steps; after every step the running
\* length and return of an environment cover the steps since its last done
\* (none if it has just reported done).
C15_FirstEpisodeStatistics ==
    InEvalLoop =>
       /\ \A i \in Recorded :
             /\ DoneSteps(i) # {}
             /\ Value(test_results.episodic_length, i) = Least(DoneSteps(i))
             /\ Value(test_results.episodic_return, i) = RewardsOver(i, 1, Least(DoneSteps(i)))
       /\ \A i \in Range(args.num_envs) :
             LET last == IF DoneSteps(i) = {} THEN 0 ELSE Greatest(DoneSteps(i))
             IN  /\ envs.episode_lengths[i] = StepsTaken - last
                 /\ envs.episode_returns[i] = RewardsOver(i, last + 1, StepsTaken)

\* an environment recorded after two rewarded steps, and stepped again since
C15_Witness ==
    /\ InEvalLoop
    /\ \E i \in Recorded :
          /\ Value(test_results.episodic_length, i) = 2
          /\ Value(test_results.episodic_return, i) > 0
          /\ StepsTaken = 3
          /\ envs.episode_lengths[i] = 1

(***************************************************************************)
(* Properties of the minibatch loop                                        *)
(***************************************************************************)
\* the number of gradient steps of the epoch whose minibatch holds index k
TimesUsed(k) ==
    Cardinality({<<g, j>> \in (1 .. Len(mb_log)) \X (1 .. args.batch_size) :
                    j <= Len(mb_log[g]) /\ mb_log[g][j] = k})

\* the minibatches of an epoch partition the sampled indices
EpochPartition ==
    pc = "log" => \A k \in 0 .. args.batch_size - 2 : TimesUsed(k) = 1

\* C16: in every update epoch, for batch_size >= 2 and
\* 1 <= num_minibatches <= batch_size, every index in 0..batch_size-2 is used
\* in exactly one minibatch of the epoch and every minibatch on which a
\* gradient step is taken is non-empty.
C16_PartitionNonEmpty ==
    (args.batch_size >= 2 /\ 1 <= args.num_minibatches
        /\ args.num_minibatches <= args.batch_size) =>
       /\ EpochPartition
       /\ \A g \in 1 .. Len(mb_log) : mb_log[g] # <<>>

====
